---- MODULE Spec2Model ----
(***************************************************************************)
(* Stop-progress tracking of the school bus tracker service.               *)
(*                                                                         *)
(* StopProgressService (roadmap section 2, "Stop Progress Service") keeps  *)
(* one StopVisit row per (busId, stopId, tripDate) in the Prisma store,    *)
(* writes it with an upsert whenever a position lies inside the geofence   *)
(* of a stop, derives the passed/current/upcoming list from the rows of    *)
(* today and publishes it on the bus channel.                              *)
(*                                                                         *)
(* Time is counted in minutes since midnight of day 0.  A position is a    *)
(* latitude measured in metres of arc along one meridian (all modelled     *)
(* coordinates share their longitude), for which the haversine distance    *)
(* is the absolute difference of the latitudes.                            *)
(* An async method runs atomically from one await to the next; every       *)
(* await of a store write is a point where other calls may run, and a      *)
(* point where the write may reject.  Both clocks, new Date() of the       *)
(* service and now() of the database, are the one clock `now`.             *)
(***************************************************************************)
EXTENDS Integers, Sequences, FiniteSets, Bags, TLC

VARIABLES now, activeRoute, visits, call, lastOp, routeCache, queries,
          refreshToken, user, authCall, authLog,
          simulationInterval, intervals, buses, emitted, lastSim

\* the state of the authentication service and of the bus simulator
authVars == <<refreshToken, user, authCall, authLog>>
simVars == <<simulationInterval, intervals, buses, emitted, lastSim>>

vars == <<now, activeRoute, visits, call, lastOp, routeCache, queries,
          authVars, simVars>>

\* no user, no refresh token and no pending call of the authentication
\* service
AuthIdle ==
  /\ refreshToken = {}
  /\ user = << >>
  /\ authCall = {}
  /\ authLog = << >>

\* const buses: currentIndex and direction of the three simulated buses
InitialBuses ==
  << [currentIndex |-> 0, direction |-> 1],
     [currentIndex |-> 5, direction |-> 1],
     [currentIndex |-> 8, direction |-> -1] >>

\* no call of the simulator yet
NoSim == [op |-> "none", wasRunning |-> FALSE, batches |-> 0]

\* the simulator as its module is loaded: no timer, no batch emitted
SimIdle ==
  /\ simulationInterval = [null |-> TRUE]
  /\ intervals = {}
  /\ buses = InitialBuses
  /\ emitted = 0
  /\ lastSim = NoSim

(***************************************************************************)
(* Bounds of the model.                                                    *)
(***************************************************************************)
\* minutes the clock may advance in a behaviour that stays within one day
MaxElapsed == 2
\* minutes the clock may advance in a behaviour that crosses midnight
MaxNight == 1
\* processPositionUpdate invocations that may be pending at the same time
MaxCalls == 2
\* buses of the fleet
NumBuses == 2

(***************************************************************************)
(* Program constants.                                                      *)
(***************************************************************************)
GEOFENCE_RADIUS == 100
\* 2 * 60 * 1000 ms, in minutes
CURRENT_WINDOW == 2
\* length of a calendar day in minutes (today.setHours(0, 0, 0, 0))
MINUTES_PER_DAY == 1440

Buses == 1..NumBuses
NoRoute == 0
Routes == {1}
\* bus 1 drives route 1, the other buses have no assignment
Assignment == [b \in Buses |-> IF b = 1 THEN 1 ELSE NoRoute]

\* the behaviours start at 09:00 or one minute before midnight
StartTimes == {540, 1439}

\* rows of the Stop table: ids are not in route order
AllStops ==
  { [id |-> 7, order |-> 1, latitude |-> 0,    longitude |-> 0, routeId |-> 1],
    [id |-> 5, order |-> 2, latitude |-> 150,  longitude |-> 0, routeId |-> 1],
    [id |-> 9, order |-> 3, latitude |-> 1000, longitude |-> 0, routeId |-> 1] }

\* how long the clock runs in the behaviours that start at `start`
Horizon(start) ==
  IF start + MaxElapsed < MINUTES_PER_DAY THEN MaxElapsed ELSE MaxNight

StopIds == { s.id : s \in AllStops }

\* reported positions: inside the geofences of the first two stops, on the
\* boundary of the second, one metre outside it, and at the last stop
Positions ==
  { [latitude |-> lat, longitude |-> 0] : lat \in {50, 250, 251, 1000} }

Undefined == -1

NoVisit ==
  [busId |-> 0, stopId |-> 0, routeId |-> 0, tripDate |-> 0, visitedAt |-> 0]

(***************************************************************************)
(* Pure helpers.                                                           *)
(***************************************************************************)
\* a distance that keeps the sign of the difference of the latitudes
calculateDistanceSigned(lat1, lon1, lat2, lon2) == lat2 - lat1

\* haversine distance of two points of the same meridian, in metres
calculateDistance(lat1, lon1, lat2, lon2) ==
  IF lat2 >= lat1 THEN lat2 - lat1 ELSE lat1 - lat2

\* const today = new Date(); today.setHours(0, 0, 0, 0)
today == now - (now % MINUTES_PER_DAY)

\* prisma.stop.findMany({ where: { routeId }, orderBy: { order: 'asc' } })
RECURSIVE SortByOrder(_)
SortByOrder(S) ==
  IF S = {} THEN << >>
  ELSE LET first == CHOOSE s \in S : \A t \in S : s.order <= t.order
       IN  <<first>> \o SortByOrder(S \ {first})

\* the ordered stop list of every route
RouteStops ==
  [r \in Routes |-> SortByOrder({ s \in AllStops : s.routeId = r })]

\* this.getRouteStops(route.id): the stops of the route in route order, as
\* getStopProgress reads them
getRouteStops(routeId) == RouteStops[routeId]

\* @@unique([busId, stopId, tripDate])
busId_stopId_tripDate(v) == <<v.busId, v.stopId, v.tripDate>>

(***************************************************************************)
(* The visit store (prisma.stopVisit).                                     *)
(***************************************************************************)
\* prisma.stopVisit.findMany({ where: { busId, tripDate } }) and the like
VisitsOf(vs, busId, tripDate) ==
  { v \in vs : v.busId = busId /\ v.tripDate = tripDate }

\* an insert in place of the upsert
upsertAlwaysCreates(vs, where, create, update) == vs \cup {create}

\* prisma.stopVisit.upsert({ where, create, update }): the row with the
\* unique key of `where` gets the fields of `update`, and when there is no
\* such row `create` is inserted (visitedAt defaults to now())
upsert(vs, where, create, update) ==
  IF \E v \in vs : busId_stopId_tripDate(v) = where
  THEN { IF busId_stopId_tripDate(v) = where
           THEN [v EXCEPT !.visitedAt = update]
           ELSE v : v \in vs }
  ELSE vs \cup {create}

\* a deleteMany that matches the date against the wrong column
deleteManyByVisitedAt(vs, busId, tripDate) ==
  { v \in vs : ~(v.busId = busId /\ v.visitedAt = tripDate) }

\* prisma.stopVisit.deleteMany({ where: { busId, tripDate } })
deleteMany(vs, busId, tripDate) ==
  { v \in vs : ~(v.busId = busId /\ v.tripDate = tripDate) }

(***************************************************************************)
(* getStopProgress: the derived StopStatus list.                           *)
(***************************************************************************)
\* visits.sort((a, b) => b.visitedAt - a.visitedAt)[0]: findMany has no
\* orderBy, so among rows of equal visitedAt any one may come first
LastVisitChoices(vs) ==
  IF vs = {} THEN {NoVisit}
  ELSE { v \in vs : \A w \in vs : w.visitedAt <= v.visitedAt }

\* stops.findIndex(s => s.id === stopId), 0-based, -1 when absent
findIndex(stops, stopId) ==
  IF \E i \in 1..Len(stops) : stops[i].id = stopId
  THEN (CHOOSE i \in 1..Len(stops) : stops[i].id = stopId) - 1
  ELSE -1

\* a window that includes its end
currentStopIdInclusive(stops, lastVisit, clock) ==
  IF lastVisit = NoVisit THEN Undefined
  ELSE IF findIndex(stops, lastVisit.stopId) < Len(stops) - 1
          /\ clock - lastVisit.visitedAt <= CURRENT_WINDOW
       THEN lastVisit.stopId
       ELSE Undefined

\* the id of the stop reported 'current', or Undefined
currentStopId(stops, lastVisit, clock) ==
  IF lastVisit = NoVisit THEN Undefined
  ELSE IF findIndex(stops, lastVisit.stopId) < Len(stops) - 1
          /\ clock - lastVisit.visitedAt < CURRENT_WINDOW
       THEN lastVisit.stopId
       ELSE Undefined

\* a findMany without the tripDate filter
TodaysVisitsAnyDay(vs, busId, routeId, clock) ==
  { v \in vs : v.busId = busId /\ v.routeId = routeId }

\* the rows getStopProgress reads: findMany({ where: { busId, routeId,
\* tripDate: today } })
TodaysVisits(vs, busId, routeId, clock) ==
  { v \in vs : v.busId = busId /\ v.routeId = routeId
               /\ v.tripDate = clock - (clock % MINUTES_PER_DAY) }

\* the StopStatus list, given the row the sort put first; the etaMinutes
\* annotation of upcoming stops is not part of the model
getStopProgress(vs, busId, routeId, lastVisit, clock) ==
  LET stops  == getRouteStops(routeId)
      mine   == TodaysVisits(vs, busId, routeId, clock)
      cur    == currentStopId(stops, lastVisit, clock)
      status(stop) ==
        IF \E v \in mine : v.stopId = stop.id
        THEN LET visit == CHOOSE v \in mine : v.stopId = stop.id
             IN  [stopId |-> stop.id,
                  status |-> IF stop.id = cur THEN "current" ELSE "passed",
                  passedAt |-> visit.visitedAt]
        ELSE [stopId |-> stop.id, status |-> "upcoming", passedAt |-> Undefined]
  IN  [i \in 1..Len(stops) |-> status(stops[i])]

(***************************************************************************)
(* State.                                                                  *)
(*   now          wall clock, minutes                                      *)
(*   activeRoute  route assigned to each bus (NoRoute when none); owned    *)
(*                by the data layer                                        *)
(*   visits       rows of the StopVisit table                              *)
(*   call         the pending processPositionUpdate invocations, each with *)
(*                its loop index and the stops whose upsert it has done    *)
(*   lastOp       what the last step did to the store or to its caller     *)
(*                (NoOp after a step that did neither)                     *)
(***************************************************************************)
NoPosition == [latitude |-> Undefined, longitude |-> Undefined]

NoOp ==
  [op |-> "none", busId |-> 0, stopId |-> 0, existed |-> FALSE, deleted |-> 0,
   wrote |-> {}, attempts |-> 0, published |-> << >>]

\* rows the table holds from the day before: the bus that has no route
\* today visited the first stop of route 1 yesterday at 09:00
StaleVisits ==
  { [busId |-> b, stopId |-> 7, routeId |-> 1,
     tripDate |-> 0 - MINUTES_PER_DAY,
     visitedAt |-> 540 - MINUTES_PER_DAY] : b \in {2} \cap Buses }

Init ==
  /\ now \in StartTimes
  /\ activeRoute = Assignment
  /\ visits = StaleVisits
  /\ call = EmptyBag
  /\ lastOp = NoOp
  /\ routeCache = {}
  /\ queries = << >>
  /\ AuthIdle
  /\ SimIdle

\* the pending invocations
Pending == BagToSet(call)

\* invocation k goes on as k2
Continue(k, k2) == (call (-) SetToBag({k})) (+) SetToBag({k2})

\* invocation k has returned or thrown
Finish(k) == call (-) SetToBag({k})

\* time passes
Tick ==
  /\ \E start \in StartTimes : now >= start /\ now < start + Horizon(start)
  /\ now' = now + 1
  /\ lastOp' = NoOp
  /\ UNCHANGED <<activeRoute, visits, call, routeCache, queries,
                 authVars, simVars>>

\* the timestamp the reports carry: they were produced when the behaviour
\* started and are processed then or later
ReportedAt ==
  CHOOSE start \in StartTimes : now >= start /\ now <= start + Horizon(start)

\* a geofence test that is a metre too wide
NextInsideWide(stops, i, position) ==
  LET inside(k) ==
        calculateDistance(position.latitude, position.longitude,
                          stops[k].latitude, stops[k].longitude) - 1
          <= GEOFENCE_RADIUS
  IN  IF \E k \in i..Len(stops) : inside(k)
      THEN CHOOSE k \in i..Len(stops) :
             inside(k) /\ \A j \in i..(k - 1) : ~inside(j)
      ELSE Len(stops) + 1

\* index of the first stop at or after position i of the loop whose
\* geofence holds the position, Len(stops) + 1 when there is none
NextInside(stops, i, position) ==
  LET inside(k) ==
        calculateDistance(position.latitude, position.longitude,
                          stops[k].latitude, stops[k].longitude)
          <= GEOFENCE_RADIUS
  IN  IF \E k \in i..Len(stops) : inside(k)
      THEN CHOOSE k \in i..Len(stops) :
             inside(k) /\ \A j \in i..(k - 1) : ~inside(j)
      ELSE Len(stops) + 1

\* a processPositionUpdate that goes on with the first route when the bus
\* has none
processPositionUpdateAnyRoute(busId, position) ==
  /\ BagCardinality(call) < MaxCalls
  /\ LET routeId == IF activeRoute[busId] = NoRoute
                    THEN CHOOSE r \in Routes : \A q \in Routes : r <= q
                    ELSE activeRoute[busId]
     IN  /\ call' = call (+) SetToBag({
               [busId |-> busId, position |-> position,
                timestamp |-> ReportedAt, routeId |-> routeId, idx |-> 1,
                wrote |-> {}] })
         /\ lastOp' = NoOp
  /\ UNCHANGED <<now, activeRoute, visits, routeCache, queries,
                 authVars, simVars>>

\* processPositionUpdate up to its first store call: a bus without an
\* active route returns at once
processPositionUpdate(busId, position) ==
  /\ BagCardinality(call) < MaxCalls
  /\ LET routeId == activeRoute[busId]
     IN  IF routeId = NoRoute
         THEN /\ call' = call
              /\ lastOp' = [NoOp EXCEPT !.op = "noRoute", !.busId = busId]
         ELSE /\ call' = call (+) SetToBag({
                   [busId |-> busId, position |-> position,
                    timestamp |-> ReportedAt, routeId |-> routeId, idx |-> 1,
                    wrote |-> {}] })
              /\ lastOp' = NoOp
  /\ UNCHANGED <<now, activeRoute, visits, routeCache, queries,
                 authVars, simVars>>

\* markStopVisited for the next stop of the loop whose geofence holds the
\* position: the upsert reaches the store
markStopVisited(k) ==
  LET stops == getRouteStops(k.routeId)
      i     == NextInside(stops, k.idx, k.position)
  IN  /\ i <= Len(stops)
      /\ LET key == <<k.busId, stops[i].id, today>>
             row == [busId |-> k.busId, stopId |-> stops[i].id,
                     routeId |-> k.routeId, tripDate |-> today,
                     visitedAt |-> now]
         IN  /\ visits' = upsert(visits, key, row, now)
             /\ lastOp' =
                  [NoOp EXCEPT !.op = "visit", !.busId = k.busId,
                               !.stopId = stops[i].id,
                               !.existed =
                                 \E v \in visits : busId_stopId_tripDate(v) = key,
                               !.attempts = 1]
      /\ call' = Continue(k, [k EXCEPT !.idx = i + 1,
                                       !.wrote = @ \cup {stops[i].id}])
      /\ UNCHANGED <<now, activeRoute, routeCache, queries,
                     authVars, simVars>>

\* markStopVisited when the store cannot be written: the upsert rejects and
\* the exception leaves processPositionUpdate after this one attempt
markStopVisitedFails(k) ==
  LET stops == getRouteStops(k.routeId)
      i     == NextInside(stops, k.idx, k.position)
  IN  /\ i <= Len(stops)
      /\ call' = Finish(k)
      /\ lastOp' = [NoOp EXCEPT !.op = "failed", !.busId = k.busId,
                                !.wrote = k.wrote, !.attempts = 1]
      /\ UNCHANGED <<now, activeRoute, visits, routeCache, queries,
                     authVars, simVars>>

\* emitStopProgress once the loop is through: the list of getStopProgress
\* goes to the channel of the bus and the call returns
emitStopProgress(k) ==
  LET stops == getRouteStops(k.routeId)
  IN  /\ NextInside(stops, k.idx, k.position) > Len(stops)
      /\ \E lastVisit \in
            LastVisitChoices(TodaysVisits(visits, k.busId, k.routeId, now)) :
           lastOp' = [NoOp EXCEPT !.op = "emit", !.busId = k.busId,
                                  !.published =
                                    getStopProgress(visits, k.busId, k.routeId,
                                                    lastVisit, now)]
      /\ call' = Finish(k)
      /\ UNCHANGED <<now, activeRoute, visits, routeCache, queries,
                     authVars, simVars>>

\* a resetTripProgress whose deleteMany leaves out the busId
resetTripProgressAllBuses(busId) ==
  /\ visits' = { v \in visits : v.tripDate # today }
  /\ lastOp' = [NoOp EXCEPT !.op = "reset", !.busId = busId,
                            !.deleted =
                              Cardinality(VisitsOf(visits, busId, today))]
  /\ UNCHANGED <<now, activeRoute, call, routeCache, queries,
                 authVars, simVars>>

\* resetTripProgress: today's rows of the bus are deleted
resetTripProgress(busId) ==
  /\ visits' = deleteMany(visits, busId, today)
  /\ lastOp' = [NoOp EXCEPT !.op = "reset", !.busId = busId,
                            !.deleted =
                              Cardinality(VisitsOf(visits, busId, today))]
  /\ UNCHANGED <<now, activeRoute, call, routeCache, queries,
                 authVars, simVars>>

Next ==
  \/ Tick
  \/ \E b \in Buses, p \in Positions : processPositionUpdate(b, p)
  \/ \E k \in Pending : markStopVisited(k)
  \/ \E k \in Pending : markStopVisitedFails(k)
  \/ \E k \in Pending : emitStopProgress(k)
  \/ \E b \in Buses : resetTripProgress(b)

Spec == Init /\ [][Next]_vars

TypeOK ==
  /\ now \in Nat
  /\ activeRoute \in [Buses -> Routes \cup {NoRoute}]
  /\ \A v \in visits :
       /\ v.busId \in Buses /\ v.stopId \in StopIds /\ v.routeId \in Routes
       /\ v.tripDate % MINUTES_PER_DAY = 0 /\ v.tripDate <= v.visitedAt
  /\ BagCardinality(call) <= MaxCalls
  /\ lastOp.op \in {"none", "noRoute", "visit", "failed", "emit", "reset"}

(***************************************************************************)
(* Vocabulary of the properties.                                           *)
(***************************************************************************)
\* sequenceOrder of a stop
OrderOf(stopId) == (CHOOSE s \in AllStops : s.id = stopId).order

\* the highest sequenceOrder the bus has visited on the day, 0 when none
HighestVisited(busId, tripDate) ==
  LET orders == { OrderOf(v.stopId) : v \in VisitsOf(visits, busId, tripDate) }
  IN  IF orders = {} THEN 0
      ELSE CHOOSE o \in orders : \A p \in orders : p <= o

\* the lists a stop-progress query for the bus and route may return now
ProgressLists(busId, routeId) ==
  { getStopProgress(visits, busId, routeId, lastVisit, now) :
      lastVisit \in LastVisitChoices(TodaysVisits(visits, busId, routeId, now)) }

\* the row of the stop that today's query reads, as a set
RowsOfStop(busId, routeId, stopId) ==
  { v \in TodaysVisits(visits, busId, routeId, now) : v.stopId = stopId }

\* the stop has today's latest visitedAt of the bus
MostRecent(busId, routeId, stopId) ==
  \E v \in RowsOfStop(busId, routeId, stopId) :
    \A w \in TodaysVisits(visits, busId, routeId, now) :
      w.visitedAt <= v.visitedAt

\* the stop has today's latest visitedAt of the bus and no other stop shares it
OnlyMostRecent(busId, routeId, stopId) ==
  \E v \in RowsOfStop(busId, routeId, stopId) :
    \A w \in TodaysVisits(visits, busId, routeId, now) :
      w # v => w.visitedAt < v.visitedAt

\* the stop was visited less than the window ago
Fresh(busId, routeId, stopId) ==
  \E v \in RowsOfStop(busId, routeId, stopId) :
    now - v.visitedAt < CURRENT_WINDOW

\* position of a state along upcoming -> current -> passed
Rank(status) ==
  CASE status = "upcoming" -> 0
    [] status = "current"  -> 1
    [] status = "passed"   -> 2

(***************************************************************************)
(* C1  Whatever position reports and resets have been processed, the       *)
(* table holds at most one row per (busId, stopId, tripDate).              *)
(***************************************************************************)
C1_OneVisitPerStopAndDay ==
  \A v, w \in visits :
    busId_stopId_tripDate(v) = busId_stopId_tripDate(w) => v = w

\* a report has just entered the geofence of a stop that already had its row
C1_Witness ==
  /\ lastOp.op = "visit"
  /\ lastOp.existed
  /\ \E v \in visits :
       /\ busId_stopId_tripDate(v) = <<lastOp.busId, lastOp.stopId, today>>
       /\ v.visitedAt = now

(***************************************************************************)
(* C2  A report inside the geofence of a stop whose sequenceOrder is below *)
(* the highest one the bus has visited that day creates no row and changes *)
(* no row: every row of such a stop that is in the table after a step was  *)
(* in it, unchanged, before the step.  Stated of the steps taken while at  *)
(* most one report is being processed.                                     *)
(***************************************************************************)
C2_NoBackwardVisit ==
  [][BagCardinality(call) <= 1 =>
       \A v \in visits' :
         OrderOf(v.stopId) < HighestVisited(v.busId, v.tripDate)
           => v \in visits]_vars

(***************************************************************************)
(* C3  Once a stop has its row for the bus and day, further reports inside *)
(* its geofence leave the row as it is: a row leaves the table or changes  *)
(* only by a reset.  Stated of the steps taken while at most one report is *)
(* being processed.                                                        *)
(***************************************************************************)
C3_RepeatEntryChangesNothing ==
  [][BagCardinality(call) <= 1 =>
       \A v \in visits : v \in visits' \/ lastOp'.op = "reset"]_vars

(***************************************************************************)
(* C4  Between two resets the rows of a bus and day are created in         *)
(* non-decreasing sequenceOrder: a row that a step creates belongs to a    *)
(* stop that is not behind any stop the bus has a row for on that day.     *)
(* Stated of the steps taken while at most one report is being processed.  *)
(***************************************************************************)
C4_CreatedInRouteOrder ==
  [][BagCardinality(call) <= 1 =>
       \A v \in visits' :
         (\A w \in visits : busId_stopId_tripDate(w) # busId_stopId_tripDate(v))
           => OrderOf(v.stopId) >= HighestVisited(v.busId, v.tripDate)]_vars

(***************************************************************************)
(* C5  Within one trip day and without a reset, the reported state of a    *)
(* stop only moves along upcoming -> current -> passed.  Compared are the  *)
(* lists before and after a step when the order of the rows leaves no      *)
(* choice about either, of the steps taken while at most one report is     *)
(* being processed.                                                        *)
(***************************************************************************)
C5_StateNeverRegresses ==
  [][\A b \in Buses, r \in Routes :
       (/\ BagCardinality(call) <= 1
        /\ lastOp'.op # "reset"
        /\ today' = today
        /\ Cardinality(ProgressLists(b, r)) = 1
        /\ Cardinality(ProgressLists(b, r)') = 1)
       => \A before \in ProgressLists(b, r), after \in ProgressLists(b, r)' :
            \A i \in 1..Len(before) :
              Rank(after[i].status) >= Rank(before[i].status)]_vars

(***************************************************************************)
(* C6  Reports of one bus are processed one at a time: no two              *)
(* processPositionUpdate invocations of the same bus are pending together. *)
(***************************************************************************)
C6_OneAtATimePerBus ==
  \A k \in Pending :
    /\ CopiesIn(k, call) = 1
    /\ \A j \in Pending : j.busId = k.busId => j = k

(***************************************************************************)
(* C7  processPositionUpdate is all-or-nothing: a call that ends in        *)
(* failure has left no upsert of its own in the table and has published    *)
(* nothing.                                                                *)
(***************************************************************************)
C7_FailureLeavesNoPartialVisit ==
  lastOp.op = "failed" => lastOp.wrote = {} /\ lastOp.published = << >>

(***************************************************************************)
(* C8  A visit write that fails is retried: processPositionUpdate fails    *)
(* towards its caller only after more than one attempt at the write.       *)
(***************************************************************************)
C8_WriteRetriedBeforeFailure ==
  lastOp.op = "failed" => lastOp.attempts > 1

(***************************************************************************)
(* C9  Right after resetTripProgress of a bus the table holds no row of    *)
(* that bus for today, and a stop-progress query for any route returns     *)
(* every stop as 'upcoming' without a passedAt.                            *)
(***************************************************************************)
C9_ResetReturnsAllUpcoming ==
  lastOp.op = "reset" =>
    /\ VisitsOf(visits, lastOp.busId, today) = {}
    /\ \A r \in Routes : \A list \in ProgressLists(lastOp.busId, r) :
         /\ Len(list) = Len(getRouteStops(r))
         /\ \A i \in 1..Len(list) :
              list[i].status = "upcoming" /\ list[i].passedAt = Undefined

\* a reset has just deleted three rows
C9_Witness ==
  lastOp.op = "reset" /\ lastOp.deleted = 3

C11_UpcomingIffNoVisit ==
  \A b \in Buses, r \in Routes : \A list \in ProgressLists(b, r) :
    \A i \in 1..Len(list) :
      LET rows == { v \in VisitsOf(visits, b, today) :
                      v.stopId = list[i].stopId }
      IN  /\ list[i].status = "upcoming" <=> rows = {}
          /\ \A v \in rows :
               /\ list[i].status \in {"passed", "current"}
               /\ list[i].passedAt = v.visitedAt
          /\ rows = {} => list[i].passedAt = Undefined

\* one list holds a passed, a current and an upcoming stop, and the table
\* holds a row of another day
C11_Witness ==
  /\ \E v \in visits : v.tripDate # today
  /\ \E b \in Buses, r \in Routes : \E list \in ProgressLists(b, r) :
       { list[i].status : i \in 1..Len(list) } =
         {"passed", "current", "upcoming"}

(***************************************************************************)
(* C12  A report writes the row of a stop only if the stop lies at most    *)
(* 100 m from its position, the boundary included, so that a report        *)
(* farther than 100 m from every stop writes nothing; and the write        *)
(* creates a row only when the table holds none of the stop for the bus    *)
(* and today, the row then carrying the present time.                      *)
(***************************************************************************)
StopsWithin(position, routeId) ==
  { s.id : s \in { t \in AllStops :
      /\ t.routeId = routeId
      /\ calculateDistance(position.latitude, position.longitude,
                           t.latitude, t.longitude) <= GEOFENCE_RADIUS } }

C12_VisitOnlyInsideGeofence ==
  /\ \A k \in Pending : k.wrote \subseteq StopsWithin(k.position, k.routeId)
  /\ lastOp.op = "visit" =>
       /\ \E k \in Pending :
            /\ k.busId = lastOp.busId
            /\ lastOp.stopId \in k.wrote
            /\ lastOp.stopId \in StopsWithin(k.position, k.routeId)
       /\ \E v \in visits :
            /\ busId_stopId_tripDate(v) = <<lastOp.busId, lastOp.stopId, today>>
            /\ v.visitedAt = now
       /\ Cardinality({ v \in visits : busId_stopId_tripDate(v) =
                          <<lastOp.busId, lastOp.stopId, today>> }) = 1

\* a report exactly 100 m from a stop has just created the row of that
\* stop, while a report 101 m from it is through its loop with nothing
\* written
C12_Witness ==
  /\ lastOp.op = "visit" /\ ~lastOp.existed /\ lastOp.stopId = 5
  /\ \E k \in Pending : k.position.latitude = 250 /\ k.wrote = {5}
  /\ \E k \in Pending : k.position.latitude = 251 /\ k.wrote = {}

(***************************************************************************)
(* C13  A report for a bus without an active route is a no-op: such a bus  *)
(* never has a pending invocation nor a row besides those of earlier days, *)
(* and the step that took its report wrote nothing, failed nothing and     *)
(* published nothing.                                                      *)
(***************************************************************************)
C13_NoRouteIsNoOp ==
  /\ \A b \in Buses : activeRoute[b] = NoRoute =>
       /\ \A k \in Pending : k.busId # b
       /\ \A v \in visits \ StaleVisits : v.busId # b
       /\ lastOp.busId = b => lastOp.op \in {"noRoute", "reset"}
  /\ lastOp.op = "noRoute" =>
       lastOp.published = << >> /\ lastOp.wrote = {} /\ lastOp.attempts = 0

\* the report of a routeless bus was taken while the table held rows and
\* another report was pending
C13_Witness ==
  lastOp.op = "noRoute" /\ visits \ StaleVisits # {} /\ Pending # {}

(***************************************************************************)
(* Route lookups of the OSRM service and the ETA functions that use them.  *)
(*                                                                         *)
(* OSRMService keeps routeCache, a Map from a key string to the route      *)
(* result and the time it was stored.  getRoute and getMultiStopRoute are  *)
(* async: each runs atomically up to its provider request and again from   *)
(* the provider's response on, and other queries may run in between.       *)
(* A coordinate is a positive number of 1/100000 degrees, so that its      *)
(* fifth decimal place is its last digit.  Time is the clock `now`, in     *)
(* minutes, observed at the instants of `Instants`; a provider request     *)
(* ends within its 10 s timeout, hence less than a minute after it began.  *)
(* `queries` is the record of the ETA queries made so far, in the order    *)
(* they began.                                                             *)
(***************************************************************************)
\* ETA queries of a behaviour
MaxQueries == 3

\* 5 * 60 * 1000 ms, in minutes
cacheTTL == 5

\* the instants at which queries begin and end: an entry stored at the
\* first is one minute younger than cacheTTL at the second and as old as
\* cacheTTL at the third
Instants == {0, cacheTTL - 1, cacheTTL}

\* what getRoute and getMultiStopRoute return for "no result"
Null == [null |-> TRUE]
\* a promise that rejects
Rejected == [rejected |-> TRUE]
\* Map.get of a key the cache does not hold
NoEntry == [key |-> << >>, result |-> Null, timestamp |-> Undefined]

\* positions of the bus: the first two differ in the fifth decimal place
\* only, the last two lie on both sides of a rounding boundary
Origins ==
  { [lat |-> 1234561, lng |-> 7700000],
    [lat |-> 1234564, lng |-> 7700000],
    [lat |-> 1234566, lng |-> 7700000] }

Destinations == { [lat |-> 1240000, lng |-> 7700000] }

\* the route the provider finds between two points at a time: the traffic
\* it knows makes the route slower minute by minute
ProviderRoute(clock) ==
  [duration |-> 540 + 60 * clock, distance |-> 3000, geometry |-> "a"]

\* what a request of the route service may bring at a time: an exception
\* of the client (network error, timeout, error status), or a body with a
\* code and routes
RouteResponses(clock) ==
  { [thrown |-> TRUE,  code |-> "",        routes |-> << >>],
    [thrown |-> FALSE, code |-> "NoRoute", routes |-> << >>],
    [thrown |-> FALSE, code |-> "Ok",      routes |-> << >>],
    [thrown |-> FALSE, code |-> "Ok",      routes |-> <<ProviderRoute(clock)>>] }

\* Number.prototype.toFixed(4) of a coordinate, as a number of 1/10000
\* degrees: the nearest one (no modelled coordinate lies halfway)
toFixed4(x) ==
  LET a == IF x < 0 THEN 0 - x ELSE x
      n == (a + 5) \div 10
  IN  IF x < 0 THEN 0 - n ELSE n

\* a key of the full coordinates
getCacheKeyExact(origin, destination) ==
  << origin.lat, origin.lng, destination.lat, destination.lng >>

getCacheKey(origin, destination) ==
  << toFixed4(origin.lat), toFixed4(origin.lng),
     toFixed4(destination.lat), toFixed4(destination.lng) >>

\* routeCache.get(cacheKey)
CacheGet(cache, key) ==
  IF \E e \in cache : e.key = key
  THEN CHOOSE e \in cache : e.key = key
  ELSE NoEntry

\* routeCache.set(cacheKey, { result, timestamp: Date.now() })
CacheSet(cache, key, result, clock) ==
  { e \in cache : e.key # key }
    \cup { [key |-> key, result |-> result, timestamp |-> clock] }

\* a validity test that still accepts an entry of age cacheTTL
isCacheValidInclusive(cached, clock) ==
  clock - cached.timestamp <= cacheTTL

isCacheValid(cached, clock) ==
  clock - cached.timestamp < cacheTTL

\* getRoute up to the provider request: the cached result when the cache
\* holds a valid entry of the key, otherwise nothing yet
getRouteCached(cache, origin, destination, useCache, clock) ==
  LET cached == CacheGet(cache, getCacheKey(origin, destination))
  IN  IF useCache /\ cached # NoEntry /\ isCacheValid(cached, clock)
      THEN cached.result
      ELSE Null

\* a getRoute without the guard around the request
getRouteAnswerNoCatch(response) ==
  IF response.thrown THEN Rejected
  ELSE IF response.code # "Ok" \/ response.routes = << >> THEN Null
  ELSE response.routes[1]

\* getRoute from the provider's response on: what it returns
getRouteAnswer(response) ==
  IF response.thrown THEN Null
  ELSE IF response.code # "Ok" \/ response.routes = << >> THEN Null
  ELSE response.routes[1]

\* a getRoute that stores whatever it returns
getRouteStoreAlways(cache, origin, destination, useCache, answer, clock) ==
  IF useCache
  THEN CacheSet(cache, getCacheKey(origin, destination), answer, clock)
  ELSE cache

\* getRoute from the provider's response on: the cache it leaves
getRouteStore(cache, origin, destination, useCache, answer, clock) ==
  IF answer \in {Null, Rejected} THEN cache
  ELSE IF useCache
  THEN CacheSet(cache, getCacheKey(origin, destination), answer, clock)
  ELSE cache

\* calculateEtaOSRM after its await of getRoute
EtaOfRoute(route) ==
  IF route = Rejected THEN Rejected
  ELSE IF route = Null THEN [source |-> "fallback", stops |-> << >>]
  ELSE [source |-> "osrm", stops |-> << >>]

NoStops == << >>

\* a query that has not begun its provider request
NewQuery ==
  [fn |-> "", origin |-> NoPosition, destination |-> NoPosition,
   stops |-> NoStops, at |-> Undefined, found |-> NoEntry,
   invoked |-> FALSE, state |-> "done", doneAt |-> Undefined,
   doneSeq |-> Undefined, route |-> Null, legs |-> Undefined,
   eta |-> Null]

\* indices of the queries that wait for the provider
PendingQueries == { i \in 1..Len(queries) : queries[i].state = "pending" }

InitOsrm ==
  /\ now = 0
  /\ activeRoute = Assignment
  /\ visits = {}
  /\ call = EmptyBag
  /\ lastOp = NoOp
  /\ routeCache = {}
  /\ queries = << >>
  /\ AuthIdle
  /\ SimIdle

\* the clock advances to the next instant, which no pending request may
\* outlast by more than its timeout
TickOsrm ==
  /\ \E t \in Instants :
       /\ t > now
       /\ \A u \in Instants : u > now => t <= u
       /\ \A i \in PendingQueries : t - queries[i].at <= 1
       /\ now' = t
  /\ UNCHANGED <<activeRoute, visits, call, lastOp, routeCache, queries,
                 authVars, simVars>>

\* calculateEtaOSRM up to the provider request of getRoute(origin,
\* destination): a valid cache entry ends the query at once
calculateEtaOSRM(origin, destination) ==
  /\ LET cached == getRouteCached(routeCache, origin, destination, TRUE, now)
         q == [NewQuery EXCEPT
                 !.fn = "calculateEtaOSRM", !.origin = origin,
                 !.destination = destination, !.at = now,
                 !.found = CacheGet(routeCache,
                                    getCacheKey(origin, destination))]
     IN  queries' = Append(queries,
           IF cached # Null
           THEN [q EXCEPT !.doneAt = now, !.doneSeq = Len(queries) + 1,
                          !.route = cached, !.eta = EtaOfRoute(cached)]
           ELSE [q EXCEPT !.invoked = TRUE, !.state = "pending"])
  /\ UNCHANGED <<now, activeRoute, visits, call, lastOp, routeCache,
                 authVars, simVars>>

\* the provider answers the getRoute request of query i
RouteResponds(i, response) ==
  /\ queries[i].state = "pending"
  /\ queries[i].fn = "calculateEtaOSRM"
  /\ LET q == queries[i]
         answer == getRouteAnswer(response)
     IN  /\ routeCache' = getRouteStore(routeCache, q.origin, q.destination,
                                        TRUE, answer, now)
         /\ queries' = [queries EXCEPT ![i] =
              [q EXCEPT !.state = "done", !.doneAt = now,
                        !.doneSeq = Len(queries),
                        !.route = answer, !.eta = EtaOfRoute(answer)]]
  /\ UNCHANGED <<now, activeRoute, visits, call, lastOp,
                 authVars, simVars>>

NextOsrm ==
  \/ TickOsrm
  \/ /\ Len(queries) < MaxQueries
     /\ \E o \in Origins, d \in Destinations : calculateEtaOSRM(o, d)
  \/ \E i \in PendingQueries, r \in RouteResponses(now) : RouteResponds(i, r)

SpecOsrm == InitOsrm /\ [][NextOsrm]_vars

(***************************************************************************)
(* Multi-stop ETA queries: calculateMultiStopEta asks getMultiStopRoute    *)
(* for one route through all stops and falls back to straight lines when   *)
(* the answer does not fit the stop list.                                  *)
(***************************************************************************)
\* ETA queries of a behaviour with multi-stop queries
MaxMultiQueries == 2

\* the position the multi-stop queries start from
MultiOrigins == { [lat |-> 1234564, lng |-> 7700000] }

\* stops of the queries: the first lies where the single-pair queries go
Stop7 == [id |-> 7, lat |-> 1240000, lng |-> 7700000]
Stop5 == [id |-> 5, lat |-> 1238000, lng |-> 7700000]

\* the stop lists of the queries, the second one not in the order of ids
StopLists == { << >>, <<Stop7>>, <<Stop7, Stop5>> }

\* a leg of a provider route
Leg == [duration |-> 300, distance |-> 1500]

\* the route with n legs the provider finds at a time
ProviderMultiRoute(n, clock) ==
  [duration |-> (300 + 60 * clock) * n, distance |-> 1500 * n,
   geometry |-> "m", legs |-> [k \in 1..n |-> Leg]]

\* what a request of the route service with n waypoints may bring: an
\* exception of the client, or a body with a code and routes; the legs of
\* a route need not be as many as the waypoints
MultiResponses(n, clock) ==
  { [thrown |-> TRUE,  code |-> "",        routes |-> << >>],
    [thrown |-> FALSE, code |-> "NoRoute", routes |-> << >>],
    [thrown |-> FALSE, code |-> "Ok",      routes |-> << >>] }
  \cup { [thrown |-> FALSE, code |-> "Ok",
          routes |-> <<ProviderMultiRoute(m, clock)>>] :
           m \in {n - 1, n, n + 1} }

\* a getMultiStopRoute that serves a single waypoint from routeCache
getMultiStopRouteBeginCached(cache, origin, waypoints, clock) ==
  IF Len(waypoints) = 0 THEN [request |-> FALSE, result |-> Null]
  ELSE IF Len(waypoints) = 1
          /\ getRouteCached(cache, origin, waypoints[1], TRUE, clock) # Null
  THEN LET r == getRouteCached(cache, origin, waypoints[1], TRUE, clock)
       IN  [request |-> FALSE,
            result |-> [totalDuration |-> r.duration,
                        totalDistance |-> r.distance,
                        geometry |-> r.geometry,
                        legs |-> <<[duration |-> r.duration,
                                    distance |-> r.distance]>>]]
  ELSE [request |-> TRUE, result |-> Null]

\* getMultiStopRoute up to the provider request: no request and no result
\* for an empty waypoint list
getMultiStopRouteBegin(cache, origin, waypoints, clock) ==
  IF Len(waypoints) = 0 THEN [request |-> FALSE, result |-> Null]
  ELSE [request |-> TRUE, result |-> Null]

\* getMultiStopRoute from the provider's response on: what it returns
getMultiStopRouteAnswer(response) ==
  IF response.thrown THEN Null
  ELSE IF response.code # "Ok" \/ response.routes = << >> THEN Null
  ELSE [totalDuration |-> response.routes[1].duration,
        totalDistance |-> response.routes[1].distance,
        geometry |-> response.routes[1].geometry,
        legs |-> response.routes[1].legs]

\* the StopETA list of a stop list, in the order of the list
StopEtas(stops) == [k \in 1..Len(stops) |-> [stopId |-> stops[k].id]]

\* a calculateMultiStopEta that takes every provider result as routed and
\* reports one stop per leg
MultiEtaOfRouteByLegs(stops, routeResult) ==
  IF routeResult = Rejected THEN Rejected
  ELSE IF Len(stops) = 0
  THEN [source |-> "fallback", stops |-> << >>]
  ELSE IF routeResult # Null
  THEN [source |-> "osrm",
        stops |-> StopEtas(SubSeq(stops, 1, Len(routeResult.legs)))]
  ELSE [source |-> "fallback", stops |-> StopEtas(stops)]

\* calculateMultiStopEta after its await of getMultiStopRoute
MultiEtaOfRoute(stops, routeResult) ==
  IF routeResult = Rejected THEN Rejected
  ELSE IF Len(stops) = 0
  THEN [source |-> "fallback", stops |-> << >>]
  ELSE IF routeResult # Null /\ Len(routeResult.legs) = Len(stops)
  THEN [source |-> "osrm", stops |-> StopEtas(stops)]
  ELSE [source |-> "fallback", stops |-> StopEtas(stops)]

\* calculateMultiStopEta up to the provider request of getMultiStopRoute:
\* an empty stop list ends the query at once
calculateMultiStopEta(origin, stops) ==
  /\ LET q == [NewQuery EXCEPT
                 !.fn = "calculateMultiStopEta", !.origin = origin,
                 !.stops = stops, !.at = now]
         begun == IF Len(stops) = 0
                  THEN [request |-> FALSE, result |-> Null]
                  ELSE getMultiStopRouteBegin(
                         routeCache, origin,
                         [k \in 1..Len(stops) |->
                            [lat |-> stops[k].lat, lng |-> stops[k].lng]],
                         now)
     IN  queries' = Append(queries,
           IF begun.request
           THEN [q EXCEPT !.invoked = TRUE, !.state = "pending"]
           ELSE [q EXCEPT !.doneAt = now, !.doneSeq = Len(queries) + 1,
                          !.route = begun.result,
                          !.eta = MultiEtaOfRoute(stops, begun.result)])
  /\ UNCHANGED <<now, activeRoute, visits, call, lastOp, routeCache,
                 authVars, simVars>>

\* the provider answers the getMultiStopRoute request of query i
MultiResponds(i, response) ==
  /\ queries[i].state = "pending"
  /\ queries[i].fn = "calculateMultiStopEta"
  /\ LET q == queries[i]
         answer == getMultiStopRouteAnswer(response)
     IN  queries' = [queries EXCEPT ![i] =
           [q EXCEPT !.state = "done", !.doneAt = now,
                     !.doneSeq = Len(queries),
                     !.route = answer,
                     !.legs = IF answer = Null THEN Undefined
                              ELSE Len(answer.legs),
                     !.eta = MultiEtaOfRoute(q.stops, answer)]]
  /\ UNCHANGED <<now, activeRoute, visits, call, lastOp, routeCache,
                 authVars, simVars>>

SingleResponds ==
  \E i \in PendingQueries : \E r \in RouteResponses(now) :
    RouteResponds(i, r)

NextMulti ==
  \/ TickOsrm
  \/ /\ Len(queries) < MaxMultiQueries
     /\ \E o \in MultiOrigins, d \in Destinations : calculateEtaOSRM(o, d)
  \/ SingleResponds
  \/ /\ Len(queries) < MaxMultiQueries
     /\ \E o \in MultiOrigins, l \in StopLists : calculateMultiStopEta(o, l)
  \/ \E i \in PendingQueries :
       \E r \in MultiResponses(Len(queries[i].stops), now) :
         MultiResponds(i, r)

SpecMulti == InitOsrm /\ [][NextMulti]_vars

(***************************************************************************)
(* Vocabulary of the lookup properties.                                    *)
(***************************************************************************)
\* the single-pair ETA queries
Single == { i \in 1..Len(queries) : queries[i].fn = "calculateEtaOSRM" }

\* query i has returned
Returned(i) == queries[i].state = "done"

\* query i had returned when query j began
ReturnedBefore(i, j) == Returned(i) /\ queries[i].doneSeq < j

\* the cache key of query i
KeyOf(i) == getCacheKey(queries[i].origin, queries[i].destination)

\* two points that differ only beyond the fourth decimal place
SameToFourthPlace(p, q) ==
  p.lat \div 10 = q.lat \div 10 /\ p.lng \div 10 = q.lng \div 10

\* two points that are the same when rounded to four decimal places
SameRounded(p, q) ==
  toFixed4(p.lat) = toFixed4(q.lat) /\ toFixed4(p.lng) = toFixed4(q.lng)

\* age at the beginning of query i of the entry it found
FoundAge(i) == queries[i].at - queries[i].found.timestamp

OnlySuccessesCached ==
  \A e \in routeCache :
    /\ e.result \notin {Null, Rejected}
    /\ \E i \in Single :
         /\ queries[i].invoked /\ Returned(i)
         /\ KeyOf(i) = e.key
         /\ queries[i].route = e.result
         /\ queries[i].doneAt = e.timestamp

\* query i invoked the provider and got no result
Failed(i) ==
  i \in Single /\ queries[i].invoked /\ Returned(i)
    /\ queries[i].route \in {Null, Rejected}

\* query j is the first lookup of the key of query i to begin after query
\* i has returned
NextLookupAfter(i, j) ==
  /\ j \in Single /\ KeyOf(j) = KeyOf(i)
  /\ ReturnedBefore(i, j)
  /\ \A k \in Single :
       (KeyOf(k) = KeyOf(i) /\ ReturnedBefore(i, k)) => j <= k

C15_AsClaimed ==
  /\ OnlySuccessesCached
  /\ \A i \in Single, j \in Single :
       (Failed(i) /\ NextLookupAfter(i, j)) => queries[j].invoked

(***************************************************************************)
(* C15  Every cache entry holds the result of a successful provider call,  *)
(* stored when that call returned, and the first lookup of a key that      *)
(* begins after a provider call for the key has failed invokes the         *)
(* provider, unless another lookup's provider call has stored a result of  *)
(* the key less than cacheTTL before.                                      *)
(***************************************************************************)
C15_FailuresNotCached ==
  /\ OnlySuccessesCached
  /\ \A i \in Single, j \in Single :
       (Failed(i) /\ NextLookupAfter(i, j)) =>
         \/ queries[j].invoked
         \/ \E k \in Single \ {i} :
              /\ KeyOf(k) = KeyOf(i)
              /\ queries[k].invoked /\ ReturnedBefore(k, j)
              /\ queries[k].route # Null
              /\ queries[j].at - queries[k].doneAt < cacheTTL

\* a provider call failed while the cache held an entry of another key,
\* and the next lookup of the failed key has invoked the provider
C15_Witness ==
  \E i \in Single, j \in Single :
    /\ Failed(i) /\ NextLookupAfter(i, j)
    /\ queries[j].invoked
    /\ queries[j].found = NoEntry
    /\ routeCache # {}

(***************************************************************************)
(* C16  A lookup returns a cached result only if the entry is younger      *)
(* than cacheTTL when the lookup begins; a lookup that finds such an       *)
(* entry returns its result without a provider call; a lookup that finds   *)
(* an entry of age cacheTTL or more invokes the provider and never returns *)
(* the entry's result, so that it returns nothing when the provider fails. *)
(***************************************************************************)
C16_NoStaleResult ==
  \A i \in Single :
    LET q == queries[i]
    IN  /\ ~q.invoked =>
             /\ q.found # NoEntry
             /\ FoundAge(i) < cacheTTL
             /\ q.route = q.found.result
        /\ (q.found # NoEntry /\ FoundAge(i) < cacheTTL) => ~q.invoked
        /\ (q.found # NoEntry /\ FoundAge(i) >= cacheTTL) =>
             /\ q.invoked
             /\ Returned(i) =>
                  /\ q.route # q.found.result
                  /\ q.route = Null \/ q.route = ProviderRoute(q.doneAt)

\* one lookup found an entry exactly cacheTTL old and returned nothing,
\* another was served an entry one minute younger
C16_Witness ==
  /\ \E i \in Single :
       /\ queries[i].found # NoEntry /\ FoundAge(i) = cacheTTL
       /\ Returned(i) /\ queries[i].route = Null
  /\ \E i \in Single :
       /\ ~queries[i].invoked /\ FoundAge(i) = cacheTTL - 1

(***************************************************************************)
(* C17 as claimed: once a lookup that found an expired entry of its key    *)
(* has returned, the cache no longer holds that entry, whether its         *)
(* provider call succeeded or failed; and a result stored for a key stays  *)
(* in the cache until a later result of the same key replaces it.          *)
(***************************************************************************)
C17_ExpiredEntryEvicted ==
  /\ \A i \in Single :
       ( /\ Returned(i)
         /\ queries[i].found # NoEntry
         /\ FoundAge(i) >= cacheTTL )
       => queries[i].found \notin routeCache
  /\ \A i \in Single :
       (queries[i].invoked /\ Returned(i) /\ queries[i].route # Null) =>
         \E e \in routeCache :
           e.key = KeyOf(i) /\ e.timestamp >= queries[i].doneAt

(***************************************************************************)
(* C18  A multi-stop query neither reads nor writes routeCache: it invokes *)
(* the provider exactly when its stop list is not empty, also when the     *)
(* cache holds a fresh route to its only stop, what it gets is what the    *)
(* provider brought when it returned, and every cache entry is the result  *)
(* of a single-pair lookup.                                                *)
(***************************************************************************)
\* the multi-stop ETA queries
Multi == { i \in 1..Len(queries) : queries[i].fn = "calculateMultiStopEta" }

C18_MultiStopBypassesCache ==
  /\ \A i \in Multi :
       LET q == queries[i]
       IN  /\ q.invoked <=> q.stops # << >>
           /\ Returned(i) =>
                \/ q.route = Null
                \/ /\ q.invoked
                   /\ q.route =
                        getMultiStopRouteAnswer(
                          [thrown |-> FALSE, code |-> "Ok",
                           routes |-> <<ProviderMultiRoute(q.legs,
                                                           q.doneAt)>>])
  /\ OnlySuccessesCached

\* a query with one stop has been answered by the provider although the
\* cache held a fresh route from its origin to that stop
C18_Witness ==
  \E i \in Multi :
    LET q == queries[i]
    IN  /\ Len(q.stops) = 1 /\ q.invoked /\ Returned(i) /\ q.route # Null
        /\ \E e \in routeCache :
             /\ e.key = getCacheKey(q.origin,
                          [lat |-> q.stops[1].lat, lng |-> q.stops[1].lng])
             /\ e.timestamp <= q.at
             /\ q.at - e.timestamp < cacheTTL
             /\ \E j \in Single : j < i /\ ReturnedBefore(j, i)

(***************************************************************************)
(* C19  A single-destination ETA query never fails: it returns a result    *)
(* whose source is 'fallback' exactly when getRoute returned nothing, and  *)
(* whose source is 'osrm' only when the route came from the provider in    *)
(* this query or from a cache entry younger than cacheTTL.                 *)
(***************************************************************************)
C19_FallbackWhenRouteUnavailable ==
  \A i \in Single :
    Returned(i) =>
      LET q == queries[i]
      IN  /\ q.eta # Rejected
          /\ q.eta.source \in {"osrm", "fallback"}
          /\ q.eta.source = "fallback" <=> q.route = Null
          /\ q.eta.source = "osrm" =>
               \/ /\ q.invoked
                  /\ q.route = ProviderRoute(q.doneAt)
               \/ /\ ~q.invoked
                  /\ FoundAge(i) < cacheTTL
                  /\ q.route = q.found.result

\* one query fell back after its provider call failed although the cache
\* held an expired entry, another returned a routed result
C19_Witness ==
  /\ \E i \in Single :
       /\ Returned(i) /\ queries[i].eta.source = "fallback"
       /\ queries[i].found # NoEntry
  /\ \E i \in Single :
       Returned(i) /\ queries[i].eta.source = "osrm"

(***************************************************************************)
(* C20  A multi-stop ETA query of a stop list that is not empty never      *)
(* fails; its source is 'osrm' exactly when the provider returned a route  *)
(* with as many legs as the list has stops and 'fallback' otherwise, and   *)
(* in both cases it returns one StopETA for each stop, in the order of     *)
(* the list.                                                               *)
(***************************************************************************)
C20_RoutedIffLegsMatch ==
  \A i \in Multi :
    (Returned(i) /\ queries[i].stops # << >>) =>
      LET q == queries[i]
          fits == q.route # Null /\ Len(q.route.legs) = Len(q.stops)
      IN  /\ q.eta # Rejected
          /\ q.eta.source = "osrm" <=> fits
          /\ q.eta.source = "fallback" <=> ~fits
          /\ Len(q.eta.stops) = Len(q.stops)
          /\ \A k \in 1..Len(q.stops) : q.eta.stops[k].stopId = q.stops[k].id

\* a query of two stops got a route of three legs and fell back, another
\* got a route of two legs and is routed
C20_Witness ==
  /\ \E i \in Multi :
       /\ Returned(i) /\ Len(queries[i].stops) = 2
       /\ queries[i].legs = 3
       /\ queries[i].eta.source = "fallback"
  /\ \E i \in Multi :
       /\ Returned(i) /\ Len(queries[i].stops) = 2
       /\ queries[i].legs = 2
       /\ queries[i].eta.source = "osrm"

(***************************************************************************)
(* The numbers of an ETA result.                                           *)
(*                                                                         *)
(* The ETA functions are pure once the route lookup has returned: their    *)
(* result depends on the route, the coordinates and the hour of the day.   *)
(* A behaviour of SpecEta applies one of them once, to an input of the     *)
(* bounded sets, and keeps the application in `queries`.  The clock `now`  *)
(* is the time of day in minutes, a coordinate is a latitude in metres of  *)
(* arc as for the stop geofences.                                          *)
(* Factors are numbers of hundredths; Math.round of a quotient of two      *)
(* naturals is the nearest integer, halves going up, which is what the     *)
(* double arithmetic of the code yields for every modelled input.          *)
(***************************************************************************)
\* longest base duration of the modelled queries, in minutes
MaxBaseMinutes == 31

\* km/h
AVG_CITY_SPEED_KMH == 25
\* 1.3, in hundredths
uncertaintyMultiplier == 130
\* the factor 1.4 of the road distance estimate, in hundredths
ROAD_FACTOR == 140

\* Math.round(n / d) for naturals n and d > 0
MathRound(n, d) == (n \div d) + (IF 2 * (n % d) >= d THEN 1 ELSE 0)

\* new Date().getHours()
getHours(clock) == (clock \div 60) % 24

getTrafficMultiplier(clock) ==
  LET hour == getHours(clock)
  IN  IF hour >= 7 /\ hour <= 10
      THEN [multiplier |-> 130, minFactor |-> 90, maxFactor |-> 160]
      ELSE IF hour >= 16 /\ hour <= 20
      THEN [multiplier |-> 140, minFactor |-> 95, maxFactor |-> 180]
      ELSE IF hour >= 22 \/ hour <= 6
      THEN [multiplier |-> 90, minFactor |-> 80, maxFactor |-> 100]
      ELSE [multiplier |-> 100, minFactor |-> 85, maxFactor |-> 120]

\* an adjustment that takes the lower bound for the estimate
applyTrafficAdjustmentByMinFactor(baseMinutes, clock) ==
  LET traffic == getTrafficMultiplier(clock)
  IN  [adjusted |-> MathRound(baseMinutes * traffic.minFactor, 100),
       range |->
         [min |-> IF MathRound(baseMinutes * traffic.minFactor, 100) < 1
                  THEN 1
                  ELSE MathRound(baseMinutes * traffic.minFactor, 100),
          max |-> MathRound(baseMinutes * traffic.maxFactor, 100)]]

applyTrafficAdjustment(baseMinutes, clock) ==
  LET traffic == getTrafficMultiplier(clock)
  IN  [adjusted |-> MathRound(baseMinutes * traffic.multiplier, 100),
       range |->
         [min |-> IF MathRound(baseMinutes * traffic.minFactor, 100) < 1
                  THEN 1
                  ELSE MathRound(baseMinutes * traffic.minFactor, 100),
          max |-> MathRound(baseMinutes * traffic.maxFactor, 100)]]

\* Math.round(timeHours * 60) of a straight line of distanceMeters
FallbackMinutes(distanceMeters) ==
  MathRound(distanceMeters * 60, 1000 * AVG_CITY_SPEED_KMH)

calculateEtaFallback(currentLat, currentLon, destLat, destLon, clock) ==
  LET distanceMeters ==
        calculateDistance(currentLat, currentLon, destLat, destLon)
      timeMinutes == FallbackMinutes(distanceMeters)
      adj == applyTrafficAdjustment(timeMinutes, clock)
  IN  [minutes |-> adj.adjusted,
       distance |-> MathRound(distanceMeters * ROAD_FACTOR, 100),
       estimatedArrival |-> clock + adj.adjusted,
       confidenceRange |->
         [minMinutes |-> MathRound(adj.range.min * uncertaintyMultiplier, 100),
          maxMinutes |-> MathRound(adj.range.max * uncertaintyMultiplier, 100)],
       routeGeometry |-> "",
       source |-> "fallback"]

\* calculateEtaOSRM after its await of getRoute, with all fields
EtaResult(currentLat, currentLon, destLat, destLon, route, clock) ==
  IF route = Null
  THEN calculateEtaFallback(currentLat, currentLon, destLat, destLon, clock)
  ELSE LET baseMinutes == MathRound(route.duration, 60)
           adj == applyTrafficAdjustment(baseMinutes, clock)
       IN  [minutes |-> adj.adjusted,
            distance |-> route.distance,
            estimatedArrival |-> clock + adj.adjusted,
            confidenceRange |->
              [minMinutes |-> adj.range.min, maxMinutes |-> adj.range.max],
            routeGeometry |-> route.geometry,
            source |-> "osrm"]

\* sum of the first i elements of a sequence of numbers
RECURSIVE SumTo(_, _)
SumTo(f, i) == IF i = 0 THEN 0 ELSE f[i] + SumTo(f, i - 1)

\* a target tracking that counts from zero
TargetIndexFromZero(stops, targetStopId) ==
  LET hits == { k \in 1..Len(stops) : stops[k].id = targetStopId }
  IN  IF hits = {} THEN 0
      ELSE (CHOOSE k \in hits : \A j \in hits : j <= k) - 1

\* stopsAway: index + 1 of the last stop of the list whose id is the target
\* id, 0 when there is none or no target id was given
TargetIndex(stops, targetStopId) ==
  LET hits == { k \in 1..Len(stops) : stops[k].id = targetStopId }
  IN  IF hits = {} THEN 0
      ELSE CHOOSE k \in hits : \A j \in hits : j <= k

\* a routed accumulation that adjusts every leg by itself and adds up
RoutedStopEtasPerLeg(stops, legs, clock) ==
  LET legAdjusted ==
        [k \in 1..Len(stops) |->
           applyTrafficAdjustment(MathRound(legs[k].duration, 60),
                                  clock).adjusted]
      legDistance == [k \in 1..Len(stops) |-> legs[k].distance]
  IN  [k \in 1..Len(stops) |->
         [stopId |-> stops[k].id, stopName |-> stops[k].name,
          etaMinutes |-> SumTo(legAdjusted, k),
          distance |-> SumTo(legDistance, k),
          status |-> IF k = 1 THEN "next" ELSE "upcoming"]]

\* the StopETA list of the routed branch
RoutedStopEtas(stops, legs, clock) ==
  LET legMinutes ==
        [k \in 1..Len(stops) |-> MathRound(legs[k].duration, 60)]
      legDistance == [k \in 1..Len(stops) |-> legs[k].distance]
  IN  [k \in 1..Len(stops) |->
         [stopId |-> stops[k].id, stopName |-> stops[k].name,
          etaMinutes |->
            applyTrafficAdjustment(SumTo(legMinutes, k), clock).adjusted,
          distance |-> SumTo(legDistance, k),
          status |-> IF k = 1 THEN "next" ELSE "upcoming"]]

\* straight-line distances from the bus to the first stop and from each
\* stop to the next
FallbackLegDistances(busLat, busLon, stops) ==
  [k \in 1..Len(stops) |->
     IF k = 1
     THEN calculateDistance(busLat, busLon, stops[1].lat, stops[1].lng)
     ELSE calculateDistance(stops[k - 1].lat, stops[k - 1].lng,
                            stops[k].lat, stops[k].lng)]

\* a fallback branch that does not accumulate along the stops
FallbackStopEtasPerLeg(busLat, busLon, stops, clock) ==
  LET distance == FallbackLegDistances(busLat, busLon, stops)
  IN  [k \in 1..Len(stops) |->
         [stopId |-> stops[k].id, stopName |-> stops[k].name,
          etaMinutes |->
            applyTrafficAdjustment(FallbackMinutes(distance[k]),
                                   clock).adjusted,
          distance |-> MathRound(distance[k] * ROAD_FACTOR, 100),
          status |-> IF k = 1 THEN "next" ELSE "upcoming"]]

\* the StopETA list of the fallback branch
FallbackStopEtas(busLat, busLon, stops, clock) ==
  LET distance == FallbackLegDistances(busLat, busLon, stops)
      legMinutes ==
        [k \in 1..Len(stops) |-> FallbackMinutes(distance[k])]
  IN  [k \in 1..Len(stops) |->
         [stopId |-> stops[k].id, stopName |-> stops[k].name,
          etaMinutes |->
            applyTrafficAdjustment(SumTo(legMinutes, k), clock).adjusted,
          distance |-> MathRound(SumTo(distance, k) * ROAD_FACTOR, 100),
          status |-> IF k = 1 THEN "next" ELSE "upcoming"]]

\* calculateMultiStopEta after its await of getMultiStopRoute, with all
\* fields; an empty stop list returns before the await
MultiStopEtaResult(busLat, busLon, stops, targetStopId, routeResult, clock) ==
  LET stopsAway == TargetIndex(stops, targetStopId)
  IN  IF Len(stops) = 0
      THEN [totalMinutes |-> 0, totalDistance |-> 0, stopsAway |-> 0,
            targetStopEta |-> Null, stops |-> << >>,
            routeGeometry |-> "", source |-> "fallback"]
      ELSE IF routeResult # Null /\ Len(routeResult.legs) = Len(stops)
      THEN LET stopETAs == RoutedStopEtas(stops, routeResult.legs, clock)
           IN  [totalMinutes |->
                  applyTrafficAdjustment(
                    MathRound(routeResult.totalDuration, 60), clock).adjusted,
                totalDistance |-> routeResult.totalDistance,
                stopsAway |-> stopsAway,
                targetStopEta |->
                  IF stopsAway = 0 THEN Null ELSE stopETAs[stopsAway],
                stops |-> stopETAs,
                routeGeometry |-> routeResult.geometry,
                source |-> "osrm"]
      ELSE LET stopETAs == FallbackStopEtas(busLat, busLon, stops, clock)
               distance == FallbackLegDistances(busLat, busLon, stops)
               legMinutes ==
                 [k \in 1..Len(stops) |-> FallbackMinutes(distance[k])]
           IN  [totalMinutes |-> SumTo(legMinutes, Len(stops)),
                totalDistance |->
                  MathRound(SumTo(distance, Len(stops)) * ROAD_FACTOR, 100),
                stopsAway |-> stopsAway,
                targetStopEta |->
                  IF stopsAway = 0 THEN Null ELSE stopETAs[stopsAway],
                stops |-> stopETAs,
                routeGeometry |-> "",
                source |-> "fallback"]

(***************************************************************************)
(* Inputs of the ETA queries of SpecEta.                                   *)
(***************************************************************************)
\* times of day: every hour, on the hour and at half past
TimesOfDay == { 60 * h + m : h \in 0..23, m \in {0, 30} }

\* where the bus is
EtaOrigin == [lat |-> 0, lng |-> 0]

\* metres of one degree of a meridian: EARTH_RADIUS * PI / 180
METRES_PER_DEGREE == 111195

\* destinations whose straight line takes 0, 1, ... MaxBaseMinutes minutes,
\* and one at 91 degrees of latitude
EtaDestinations ==
  { [lat |-> MathRound(b * 1000 * AVG_CITY_SPEED_KMH, 60), lng |-> 0] :
      b \in 0..MaxBaseMinutes }
  \cup { [lat |-> 91 * METRES_PER_DEGREE, lng |-> 0] }

\* what getRoute returns: nothing, or a route of 0, 30, 60, ... seconds
EtaRoutes ==
  {Null} \cup { [duration |-> 30 * k, distance |-> 3000, geometry |-> "a"] :
                  k \in 0..(2 * MaxBaseMinutes) }

\* stops along the meridian of the bus, with ids out of order
EtaStopA == [id |-> 7, name |-> "A", lat |-> 600,  lng |-> 0]
EtaStopB == [id |-> 5, name |-> "B", lat |-> 1200, lng |-> 0]
EtaStopC == [id |-> 9, name |-> "C", lat |-> 5000, lng |-> 0]

EtaStopLists ==
  { << >>, <<EtaStopA>>, <<EtaStopA, EtaStopB>>, <<EtaStopB, EtaStopA>>,
    <<EtaStopA, EtaStopB, EtaStopC>> }

\* the target stop id of a query: none, a stop of the lists, or an unknown
TargetStopIds == {Undefined, 7, 5, 9, 99}

\* seconds a leg of a provider route may take: 0, 1 and 2 minutes rounded
LegDurations == {29, 60, 90}

\* the legs of a provider route with n legs
LegLists(n) == [1..n -> { [duration |-> d, distance |-> 500] :
                            d \in LegDurations }]

\* what getMultiStopRoute returns for n waypoints: nothing, or a route
\* whose legs are as many as the waypoints, or fewer
EtaMultiRoutes(n) ==
  {Null} \cup
  { [totalDuration |-> SumTo([k \in 1..Len(l) |-> l[k].duration], Len(l)),
     totalDistance |-> 500 * Len(l),
     geometry |-> "m", legs |-> l] :
      l \in LegLists(n) \cup (IF n > 0 THEN LegLists(n - 1) ELSE {}) }

\* a calculateMultiStopEta that asks for a route of any stop list
MultiStopEtaAwaitsAlways(stops) == TRUE

\* calculateMultiStopEta reaches its await of getMultiStopRoute unless the
\* stop list is empty
MultiStopEtaAwaits(stops) == Len(stops) # 0

\* an application of an ETA function
NewEta ==
  [fn |-> "", origin |-> EtaOrigin, destination |-> EtaOrigin,
   stops |-> NoStops, targetStopId |-> Undefined, at |-> Undefined,
   awaited |-> FALSE, route |-> Null, eta |-> Null]

InitEta ==
  /\ now \in TimesOfDay
  /\ activeRoute = Assignment
  /\ visits = {}
  /\ call = EmptyBag
  /\ lastOp = NoOp
  /\ routeCache = {}
  /\ queries = << >>
  /\ AuthIdle
  /\ SimIdle

\* calculateEtaOSRM once getRoute has returned route
SingleEta(destination, route) ==
  /\ queries = << >>
  /\ queries' = <<
       [NewEta EXCEPT
          !.fn = "calculateEtaOSRM", !.destination = destination,
          !.at = now, !.awaited = TRUE, !.route = route,
          !.eta = EtaResult(EtaOrigin.lat, EtaOrigin.lng,
                            destination.lat, destination.lng, route, now)] >>
  /\ UNCHANGED <<now, activeRoute, visits, call, lastOp, routeCache,
                 authVars, simVars>>

\* calculateMultiStopEta: at once for an empty stop list, otherwise once
\* getMultiStopRoute has returned routeResult
MultiStopEta(stops, targetStopId, routeResult) ==
  /\ queries = << >>
  /\ queries' = <<
       [NewEta EXCEPT
          !.fn = "calculateMultiStopEta", !.stops = stops,
          !.targetStopId = targetStopId, !.at = now,
          !.awaited = MultiStopEtaAwaits(stops),
          !.route = IF MultiStopEtaAwaits(stops) THEN routeResult ELSE Null,
          !.eta = MultiStopEtaResult(EtaOrigin.lat, EtaOrigin.lng, stops,
                                     targetStopId, routeResult, now)] >>
  /\ UNCHANGED <<now, activeRoute, visits, call, lastOp, routeCache,
                 authVars, simVars>>

NextEta ==
  \/ \E d \in EtaDestinations, r \in EtaRoutes : SingleEta(d, r)
  \/ \E l \in EtaStopLists, t \in TargetStopIds :
       \E r \in EtaMultiRoutes(Len(l)) : MultiStopEta(l, t, r)

SpecEta == InitEta /\ [][NextEta]_vars

(***************************************************************************)
(* Vocabulary of the ETA properties.                                       *)
(***************************************************************************)
\* the function that was applied, "" when none was yet
AppliedFn == IF queries = << >> THEN "" ELSE queries[1].fn

\* a single-destination query was answered from a route
RoutedSingle ==
  AppliedFn = "calculateEtaOSRM" /\ queries[1].route # Null

\* base minutes of the query: those of the route, or of the straight line
BaseOfRoute == MathRound(queries[1].route.duration, 60)

StraightLineBase(destination) ==
  FallbackMinutes(calculateDistance(EtaOrigin.lat, EtaOrigin.lng,
                                    destination.lat, destination.lng))

\* the bands as the hours 07:00 to 10:00, 16:00 to 20:00 and 22:00 to 06:59
ClaimedBand(clock) ==
  IF clock >= 7 * 60 /\ clock <= 10 * 60
  THEN [multiplier |-> 130, minFactor |-> 90, maxFactor |-> 160]
  ELSE IF clock >= 16 * 60 /\ clock <= 20 * 60
  THEN [multiplier |-> 140, minFactor |-> 95, maxFactor |-> 180]
  ELSE IF clock >= 22 * 60 \/ clock <= 6 * 60 + 59
  THEN [multiplier |-> 90, minFactor |-> 80, maxFactor |-> 100]
  ELSE [multiplier |-> 100, minFactor |-> 85, maxFactor |-> 120]

\* base minutes of the legs of the multi-stop query, on either path
LegMinutesOf(q) ==
  IF q.eta.source = "osrm"
  THEN [k \in 1..Len(q.stops) |-> MathRound(q.route.legs[k].duration, 60)]
  ELSE [k \in 1..Len(q.stops) |->
          FallbackMinutes(
            IF k = 1
            THEN calculateDistance(q.origin.lat, q.origin.lng,
                                   q.stops[1].lat, q.stops[1].lng)
            ELSE calculateDistance(q.stops[k - 1].lat, q.stops[k - 1].lng,
                                   q.stops[k].lat, q.stops[k].lng))]

\* cumulative distance in metres up to stop i, on either path
CumulativeDistanceOf(q, i) ==
  IF q.eta.source = "osrm"
  THEN SumTo([k \in 1..Len(q.stops) |-> q.route.legs[k].distance], i)
  ELSE MathRound(
         SumTo([k \in 1..Len(q.stops) |->
                  IF k = 1
                  THEN calculateDistance(q.origin.lat, q.origin.lng,
                                         q.stops[1].lat, q.stops[1].lng)
                  ELSE calculateDistance(q.stops[k - 1].lat,
                                         q.stops[k - 1].lng,
                                         q.stops[k].lat, q.stops[k].lng)], i)
           * ROAD_FACTOR,
         100)

(***************************************************************************)
(* C21  A multi-stop ETA query with an empty stop list returns             *)
(* totalMinutes 0, totalDistance 0, stopsAway 0, no targetStopEta and an   *)
(* empty stops list without reaching the request of the route provider,    *)
(* whether or not a target stop id is given.                               *)
(***************************************************************************)
C21_EmptyListReturnsZero ==
  (AppliedFn = "calculateMultiStopEta" /\ queries[1].stops = << >>) =>
    /\ queries[1].eta # Rejected
    /\ queries[1].eta.totalMinutes = 0
    /\ queries[1].eta.totalDistance = 0
    /\ queries[1].eta.stopsAway = 0
    /\ queries[1].eta.targetStopEta = Null
    /\ queries[1].eta.stops = << >>
    /\ ~queries[1].awaited

\* an empty stop list was queried with a target stop id
C21_Witness ==
  /\ AppliedFn = "calculateMultiStopEta"
  /\ queries[1].stops = << >>
  /\ queries[1].targetStopId = 7
  /\ queries[1].eta.stopsAway = 0

(***************************************************************************)
(* C22 as claimed: a routed single-destination result has minutes =        *)
(* round(base x multiplier) and confidenceRange = [round(base x minFactor),*)
(* round(base x maxFactor)], base being the provider duration in minutes;  *)
(* 1800 s at 09:00 give 39 minutes and the range [27, 48].                 *)
(***************************************************************************)
C22_AsClaimed ==
  RoutedSingle =>
    LET traffic == getTrafficMultiplier(now)
        eta == queries[1].eta
    IN  /\ eta.minutes = MathRound(BaseOfRoute * traffic.multiplier, 100)
        /\ eta.confidenceRange.minMinutes =
             MathRound(BaseOfRoute * traffic.minFactor, 100)
        /\ eta.confidenceRange.maxMinutes =
             MathRound(BaseOfRoute * traffic.maxFactor, 100)
        /\ (queries[1].route.duration = 1800 /\ now = 9 * 60) =>
             /\ eta.minutes = 39
             /\ eta.confidenceRange = [minMinutes |-> 27, maxMinutes |-> 48]

(***************************************************************************)
(* C22  A routed single-destination result has minutes = round(base x      *)
(* multiplier) and confidenceRange = [max(1, round(base x minFactor)),     *)
(* round(base x maxFactor)], base being the provider duration rounded to   *)
(* minutes; 1800 s at 09:00 give 39 minutes and the range [27, 48].        *)
(***************************************************************************)
C22_RoutedAdjustment ==
  RoutedSingle =>
    LET traffic == getTrafficMultiplier(now)
        eta == queries[1].eta
        low == MathRound(BaseOfRoute * traffic.minFactor, 100)
    IN  /\ eta.minutes = MathRound(BaseOfRoute * traffic.multiplier, 100)
        /\ eta.confidenceRange.minMinutes = (IF low < 1 THEN 1 ELSE low)
        /\ eta.confidenceRange.maxMinutes =
             MathRound(BaseOfRoute * traffic.maxFactor, 100)
        /\ (queries[1].route.duration = 1800 /\ now = 9 * 60) =>
             /\ eta.minutes = 39
             /\ eta.confidenceRange = [minMinutes |-> 27, maxMinutes |-> 48]

\* the provider's route takes 1800 s at 09:00
C22_Witness ==
  /\ RoutedSingle
  /\ queries[1].route.duration = 1800 /\ now = 9 * 60
  /\ queries[1].eta.minutes = 39

(***************************************************************************)
(* C23 as claimed: the band of a query is the morning peak (1.3, 0.9-1.6)  *)
(* from 07:00 to 10:00, the evening peak (1.4, 0.95-1.8) from 16:00 to     *)
(* 20:00, the night band (0.9, 0.8-1.0) from 22:00 to 06:59 and the normal *)
(* band (1.0, 0.85-1.2) at every other time, 10:30, 20:30 and 21:30        *)
(* among them: a routed single-destination result is adjusted by the       *)
(* factors of that band.                                                   *)
(***************************************************************************)
C23_BandsAsSpecified ==
  RoutedSingle =>
    LET traffic == ClaimedBand(now)
        eta == queries[1].eta
        low == MathRound(BaseOfRoute * traffic.minFactor, 100)
    IN  /\ eta.minutes = MathRound(BaseOfRoute * traffic.multiplier, 100)
        /\ eta.confidenceRange.minMinutes = (IF low < 1 THEN 1 ELSE low)
        /\ eta.confidenceRange.maxMinutes =
             MathRound(BaseOfRoute * traffic.maxFactor, 100)

(***************************************************************************)
(* C24  In a multi-stop result the ETA of the i-th stop is the traffic     *)
(* adjustment of the sum of the base minutes of legs 1..i, applied once,   *)
(* and its distance is the cumulative distance of legs 1..i, on the routed *)
(* path and on the fallback path.                                          *)
(***************************************************************************)
C24_AdjustmentOfCumulative ==
  (AppliedFn = "calculateMultiStopEta" /\ queries[1].stops # << >>) =>
    LET q == queries[1]
        traffic == getTrafficMultiplier(now)
    IN  /\ Len(q.eta.stops) = Len(q.stops)
        /\ \A i \in 1..Len(q.stops) :
             /\ q.eta.stops[i].etaMinutes =
                  MathRound(SumTo(LegMinutesOf(q), i) * traffic.multiplier,
                            100)
             /\ q.eta.stops[i].distance = CumulativeDistanceOf(q, i)

\* the ETA of the second stop of a routed result is not the sum of the
\* adjusted minutes of its two legs
C24_Witness ==
  /\ AppliedFn = "calculateMultiStopEta"
  /\ queries[1].eta.source = "osrm"
  /\ Len(queries[1].stops) = 2
  /\ LET q == queries[1]
         m == getTrafficMultiplier(now).multiplier
     IN  q.eta.stops[2].etaMinutes #
           MathRound(LegMinutesOf(q)[1] * m, 100)
             + MathRound(LegMinutesOf(q)[2] * m, 100)

(***************************************************************************)
(* C25  When the target stop id is the id of the k-th stop of the list,    *)
(* the multi-stop result has stopsAway = k and targetStopEta equal to the  *)
(* k-th entry of stops; when no target is given or no stop has the id,     *)
(* stopsAway = 0 and there is no targetStopEta; on both paths.             *)
(***************************************************************************)
C25_TargetTracking ==
  AppliedFn = "calculateMultiStopEta" =>
    LET q == queries[1]
        at == { k \in 1..Len(q.stops) : q.stops[k].id = q.targetStopId }
    IN  /\ \A k \in at :
             /\ q.eta.stopsAway = k
             /\ q.eta.targetStopEta = q.eta.stops[k]
             /\ q.eta.targetStopEta.stopId = q.targetStopId
        /\ at = {} =>
             /\ q.eta.stopsAway = 0
             /\ q.eta.targetStopEta = Null

\* the target is the second of three stops of a fallback result
C25_Witness ==
  /\ AppliedFn = "calculateMultiStopEta"
  /\ queries[1].eta.source = "fallback"
  /\ Len(queries[1].stops) = 3
  /\ queries[1].targetStopId = queries[1].stops[2].id
  /\ queries[1].eta.stopsAway = 2

(***************************************************************************)
(* C26 as claimed: for a destination whose straight line takes as many     *)
(* base minutes as the provider's route, at the same time of day, the      *)
(* confidence range of the fallback result is strictly wider, as a         *)
(* fraction of its minutes, than that of the routed result.                *)
(***************************************************************************)
C26_FallbackStrictlyWider ==
  (RoutedSingle /\ StraightLineBase(queries[1].destination) = BaseOfRoute) =>
    LET routed == queries[1].eta
        fallback ==
          calculateEtaFallback(EtaOrigin.lat, EtaOrigin.lng,
                               queries[1].destination.lat,
                               queries[1].destination.lng, now)
    IN  (fallback.confidenceRange.maxMinutes
           - fallback.confidenceRange.minMinutes) * routed.minutes
        > (routed.confidenceRange.maxMinutes
             - routed.confidenceRange.minMinutes) * fallback.minutes

(***************************************************************************)
(* C27 as claimed: the confidence range of every single-destination        *)
(* result, routed or fallback, in every band and for every base duration,  *)
(* has 1 <= min <= max.                                                    *)
(***************************************************************************)
C27_RangeFlooredAndOrdered ==
  AppliedFn = "calculateEtaOSRM" =>
    /\ 1 <= queries[1].eta.confidenceRange.minMinutes
    /\ queries[1].eta.confidenceRange.minMinutes
         <= queries[1].eta.confidenceRange.maxMinutes

(***************************************************************************)
(* C28 as claimed: a VisitRecord that processPositionUpdate creates has    *)
(* as visitedAt the timestamp its report carries, also when the report is  *)
(* processed late.                                                         *)
(***************************************************************************)
C28_VisitedAtIsReportTimestamp ==
  (lastOp.op = "visit" /\ ~lastOp.existed) =>
    \E k \in Pending :
      /\ k.busId = lastOp.busId
      /\ lastOp.stopId \in k.wrote
      /\ \A v \in VisitsOf(visits, lastOp.busId, today) :
           v.stopId = lastOp.stopId => v.visitedAt = k.timestamp

(***************************************************************************)
(* C29 as claimed: a processPositionUpdate of a bus with an active route   *)
(* publishes its one StopStatus list to the channel of that bus after its  *)
(* visit writes, and the list shows the visits the same report recorded:   *)
(* no stop the report wrote is 'upcoming' in it.                           *)
(***************************************************************************)
C29_PublishReflectsOwnVisits ==
  [][\A k \in Pending :
       (call' = Finish(k) /\ lastOp'.op = "emit") =>
         /\ lastOp'.busId = k.busId
         /\ \A i \in 1..Len(lastOp'.published) :
              lastOp'.published[i].stopId \in k.wrote
                => lastOp'.published[i].status # "upcoming"]_vars

Malformed(c) ==
  c.lat > 90 * METRES_PER_DEGREE \/ c.lat < 0 - 90 * METRES_PER_DEGREE

\* the points a query names
PointsOf(q) ==
  {<<q.origin.lat, q.origin.lng>>, <<q.destination.lat, q.destination.lng>>}
    \cup { <<q.stops[k].lat, q.stops[k].lng>> : k \in 1..Len(q.stops) }

(***************************************************************************)
(* C31 as claimed: an ETA query with malformed coordinates is rejected as  *)
(* InvalidInput before the route provider is asked.                        *)
(***************************************************************************)
C31_MalformedIsRejected ==
  (AppliedFn = "calculateEtaOSRM" /\ Malformed(queries[1].destination)) =>
    /\ queries[1].eta = Rejected
    /\ ~queries[1].awaited

C34_TotalsAreLastStop ==
  (AppliedFn = "calculateMultiStopEta" /\ queries[1].stops # << >>) =>
    LET eta == queries[1].eta
    IN  /\ eta.totalMinutes = eta.stops[Len(eta.stops)].etaMinutes
        /\ eta.totalDistance = eta.stops[Len(eta.stops)].distance

(***************************************************************************)
(* C35 as claimed: in every single-destination result, routed or           *)
(* fallback, minMinutes <= minutes <= maxMinutes.                          *)
(***************************************************************************)
C35_MinutesInsideRange ==
  AppliedFn = "calculateEtaOSRM" =>
    /\ queries[1].eta.confidenceRange.minMinutes <= queries[1].eta.minutes
    /\ queries[1].eta.minutes <= queries[1].eta.confidenceRange.maxMinutes

(***************************************************************************)
(* C36  In every multi-stop result etaMinutes and distance are             *)
(* non-decreasing along the stops list, on the routed and on the fallback  *)
(* path.                                                                   *)
(***************************************************************************)
C36_NonDecreasingAlongStops ==
  AppliedFn = "calculateMultiStopEta" =>
    LET l == queries[1].eta.stops
    IN  \A i \in 1..Len(l), j \in 1..Len(l) :
          i < j => /\ l[i].etaMinutes <= l[j].etaMinutes
                   /\ l[i].distance <= l[j].distance

\* a fallback result for a list that turns back: the second stop is nearer
\* to the bus than the first and still later
C36_Witness ==
  /\ AppliedFn = "calculateMultiStopEta"
  /\ queries[1].eta.source = "fallback"
  /\ Len(queries[1].stops) = 2
  /\ queries[1].stops[2].lat < queries[1].stops[1].lat
  /\ queries[1].eta.stops[1].etaMinutes < queries[1].eta.stops[2].etaMinutes

(***************************************************************************)
(* C33 as claimed: a stop the bus skipped is reported as passed once a     *)
(* later stop of the route is visited: in every published StopStatus list  *)
(* no 'upcoming' stop comes before a 'passed' or 'current' stop.           *)
(***************************************************************************)
C33_SkippedStopIsPassed ==
  lastOp.op = "emit" =>
    \A i \in 1..Len(lastOp.published), j \in 1..Len(lastOp.published) :
      (i < j /\ lastOp.published[j].status \in {"passed", "current"})
        => lastOp.published[i].status # "upcoming"

(***************************************************************************)
(* The authentication service: refresh tokens and password changes.        *)
(*                                                                         *)
(* In SpecAuth `now` counts seconds, the resolution of the iat and exp     *)
(* claims of a JWT.  Every await of a prisma call is a step of its own, so *)
(* calls interleave where the code awaits.  A token string is determined   *)
(* by its payload, iat and exp: two tokens signed for one user within one  *)
(* second are the same string.  findUnique({ where: { token } }) makes     *)
(* token a unique column, so a create of a stored token rejects.           *)
(***************************************************************************)
\* calls of the service in one behaviour
MaxAuthCalls == 3

\* seconds that pass in one behaviour
MaxAuthClock == 2

\* 7 * 24 * 60 * 60 seconds: JWT_REFRESH_EXPIRY and expiresAt
REFRESH_TTL == 604800

UserIds == {1}

Passwords == {"old", "new", "wrong"}

\* bcrypt.hash(password, SALT_ROUNDS): the salt is fresh at every call
hashPassword(password, salt) == [bcrypt |-> password, salt |-> salt]

\* bcrypt.compare(password, hash)
verifyPassword(password, hash) == hash.bcrypt = password

\* jwt.sign({ userId, type: 'refresh' }, JWT_SECRET, { expiresIn: '7d' })
jwtSign(userId, clock) ==
  [userId |-> userId, type |-> "refresh", iat |-> clock,
   exp |-> clock + REFRESH_TTL]

\* jwt.verify(token, JWT_SECRET) does not throw
jwtVerify(token, clock) == clock < token.exp

\* the row generateRefreshToken creates
TokenRow(token, userId, clock) ==
  [token |-> token, userId |-> userId, expiresAt |-> clock + REFRESH_TTL]

\* the token pair a successful refresh returns
AuthTokens(userId, newRefreshToken) ==
  [accessToken |-> [userId |-> userId], refreshToken |-> newRefreshToken]

\* results of refreshAccessToken that are token pairs
IsPair(result) == result # Null /\ result # Rejected

\* calls begun so far
AuthStarted == Len(authLog) + Cardinality(authCall)

\* the refresh tokens clients hold: the one of the login and those that
\* refreshes returned
KnownTokens ==
  {jwtSign(1, 0)} \cup
  { authLog[i].result.refreshToken :
      i \in { j \in DOMAIN authLog :
                authLog[j].fn = "refreshAccessToken"
                  /\ IsPair(authLog[j].result) } }

\* a call of the service before it begins
NewAuthCall ==
  [id |-> 0, fn |-> "", pc |-> "", token |-> Null, userId |-> 0,
   currentPassword |-> "", newPassword |-> "", passwordHash |-> Null]

\* call k returns or throws result
AuthReturns(k, result) ==
  /\ authCall' = authCall \ {k}
  /\ authLog' = Append(authLog, [id |-> k.id, fn |-> k.fn, token |-> k.token,
                                 userId |-> k.userId, result |-> result])

\* call k goes on at its next await
AuthGoesOn(k, k2) ==
  /\ authCall' = (authCall \ {k}) \cup {k2}
  /\ authLog' = authLog

\* user 1 has logged in at second 0 and holds the refresh token of that
\* login
InitAuth ==
  /\ now = 0
  /\ activeRoute = Assignment
  /\ visits = {}
  /\ call = EmptyBag
  /\ lastOp = NoOp
  /\ routeCache = {}
  /\ queries = << >>
  /\ SimIdle
  /\ user = [u \in UserIds |->
               [passwordHash |-> hashPassword("old", 0), isActive |-> TRUE]]
  /\ refreshToken = { TokenRow(jwtSign(1, 0), 1, 0) }
  /\ authCall = {}
  /\ authLog = << >>

\* a second passes
TickAuth ==
  /\ now < MaxAuthClock
  /\ now' = now + 1
  /\ UNCHANGED <<activeRoute, visits, call, lastOp, routeCache, queries,
                 authVars, simVars>>

\* refreshAccessToken is called with a token a client holds
refreshAccessToken(token) ==
  /\ AuthStarted < MaxAuthCalls
  /\ authCall' = authCall \cup
       {[NewAuthCall EXCEPT !.id = AuthStarted + 1,
                            !.fn = "refreshAccessToken",
                            !.pc = "verifyRefreshToken",
                            !.token = token, !.userId = token.userId]}
  /\ UNCHANGED <<now, activeRoute, visits, call, lastOp, routeCache, queries,
                 refreshToken, user, authLog, simVars>>

\* verifyRefreshToken and the lookup of the user: null unless the token
\* verifies, its row is stored and not expired and the user is active
verifyRefreshToken(k) ==
  /\ k.fn = "refreshAccessToken" /\ k.pc = "verifyRefreshToken"
  /\ IF jwtVerify(k.token, now) /\ k.token.type = "refresh"
          /\ \E storedToken \in refreshToken :
               storedToken.token = k.token /\ ~(storedToken.expiresAt < now)
          /\ k.userId \in DOMAIN user /\ user[k.userId].isActive
     THEN AuthGoesOn(k, [k EXCEPT !.pc = "revokeRefreshToken"])
     ELSE AuthReturns(k, Null)
  /\ UNCHANGED <<now, activeRoute, visits, call, lastOp, routeCache, queries,
                 refreshToken, user, simVars>>

\* revokeRefreshToken: deleteMany({ where: { token } })
revokeRefreshToken(k) ==
  /\ k.fn = "refreshAccessToken" /\ k.pc = "revokeRefreshToken"
  /\ refreshToken' = { r \in refreshToken : r.token # k.token }
  /\ AuthGoesOn(k, [k EXCEPT !.pc = "generateRefreshToken"])
  /\ UNCHANGED <<now, activeRoute, visits, call, lastOp, routeCache, queries,
                 user, simVars>>

\* generateRefreshToken: the token is signed and its row created; the
\* create rejects when the table holds the same token
generateRefreshToken(k) ==
  /\ k.fn = "refreshAccessToken" /\ k.pc = "generateRefreshToken"
  /\ LET token == jwtSign(k.userId, now)
     IN  IF \E r \in refreshToken : r.token = token
         THEN /\ refreshToken' = refreshToken
              /\ AuthReturns(k, Rejected)
         ELSE /\ refreshToken' =
                   refreshToken \cup {TokenRow(token, k.userId, now)}
              /\ AuthReturns(k, AuthTokens(k.userId, token))
  /\ UNCHANGED <<now, activeRoute, visits, call, lastOp, routeCache, queries,
                 user, simVars>>

\* changePassword up to the answer of prisma.user.findUnique
changePassword(userId, currentPassword, newPassword) ==
  /\ AuthStarted < MaxAuthCalls
  /\ authCall' = authCall \cup
       {[NewAuthCall EXCEPT !.id = AuthStarted + 1,
                            !.fn = "changePassword",
                            !.pc = "verifyPassword",
                            !.userId = userId,
                            !.currentPassword = currentPassword,
                            !.newPassword = newPassword,
                            !.passwordHash = user[userId].passwordHash]}
  /\ UNCHANGED <<now, activeRoute, visits, call, lastOp, routeCache, queries,
                 refreshToken, user, authLog, simVars>>

\* verifyPassword, hashPassword and prisma.user.update: false when the
\* current password does not match the hash that was read
updatePassword(k) ==
  /\ k.fn = "changePassword" /\ k.pc = "verifyPassword"
  /\ IF verifyPassword(k.currentPassword, k.passwordHash)
     THEN /\ user' = [user EXCEPT ![k.userId].passwordHash =
                                    hashPassword(k.newPassword, now)]
          /\ AuthGoesOn(k, [k EXCEPT !.pc = "revokeAllUserTokens"])
     ELSE /\ user' = user
          /\ AuthReturns(k, FALSE)
  /\ UNCHANGED <<now, activeRoute, visits, call, lastOp, routeCache, queries,
                 refreshToken, simVars>>

\* revokeAllUserTokens: deleteMany({ where: { userId } }), then true
revokeAllUserTokens(k) ==
  /\ k.fn = "changePassword" /\ k.pc = "revokeAllUserTokens"
  /\ refreshToken' = { r \in refreshToken : r.userId # k.userId }
  /\ AuthReturns(k, TRUE)
  /\ UNCHANGED <<now, activeRoute, visits, call, lastOp, routeCache, queries,
                 user, simVars>>

NextAuth ==
  \/ TickAuth
  \/ \E token \in KnownTokens : refreshAccessToken(token)
  \/ \E k \in authCall : verifyRefreshToken(k)
  \/ \E k \in authCall : revokeRefreshToken(k)
  \/ \E k \in authCall : generateRefreshToken(k)
  \/ \E u \in UserIds, c \in {"old", "wrong"} : changePassword(u, c, "new")
  \/ \E k \in authCall : updatePassword(k)
  \/ \E k \in authCall : revokeAllUserTokens(k)

SpecAuth == InitAuth /\ [][NextAuth]_vars

(***************************************************************************)
(* C37 as claimed: a refresh token is single-use: no token yields two      *)
(* token pairs, whether the refreshAccessToken calls with it are           *)
(* concurrent or one after the other.                                      *)
(***************************************************************************)
C37_RefreshTokenSingleUse ==
  \A i \in DOMAIN authLog, j \in DOMAIN authLog :
    (/\ i # j
     /\ authLog[i].fn = "refreshAccessToken"
     /\ authLog[j].fn = "refreshAccessToken"
     /\ authLog[i].token = authLog[j].token
     /\ IsPair(authLog[i].result))
      => ~IsPair(authLog[j].result)

(***************************************************************************)
(* C38 as claimed: once changePassword has returned true, every            *)
(* refreshAccessToken that completes afterwards with a token issued        *)
(* before the change returns null, also when it was in flight during the   *)
(* change.                                                                 *)
(***************************************************************************)
C38_PasswordChangeRevokesTokens ==
  \A i \in DOMAIN authLog, j \in DOMAIN authLog :
    (/\ i < j
     /\ authLog[i].fn = "changePassword" /\ authLog[i].result = TRUE
     /\ authLog[j].fn = "refreshAccessToken"
     /\ authLog[j].userId = authLog[i].userId
     /\ \/ authLog[j].token = jwtSign(1, 0)
        \/ \E h \in 1..(i - 1) :
             /\ authLog[h].fn = "refreshAccessToken"
             /\ IsPair(authLog[h].result)
             /\ authLog[h].result.refreshToken = authLog[j].token)
      => authLog[j].result = Null

(***************************************************************************)
(* The bus simulator.                                                      *)
(*                                                                         *)
(* simulationInterval is the module's handle of its timer and intervals    *)
(* the timers of the runtime that are active; a handle is identified by    *)
(* the number of the batch that was emitted when it was made.  The calls   *)
(* are synchronous, so each is one step.  startBusSimulator sets io before *)
(* anything is emitted, so the `if (io)` of updateBusPositions holds in    *)
(* every call and every call emits one batch.                              *)
(***************************************************************************)
\* position batches emitted in one behaviour
MaxBatches == 12

\* points of ROUTE_A, ROUTE_B and ROUTE_C
RouteLength == <<15, 16, 15>>

\* updateBusPositions: every bus moves one point and turns at the ends of
\* its route
updateBusPositions(bs) ==
  [b \in DOMAIN bs |->
     LET moved == bs[b].currentIndex + bs[b].direction
     IN  IF moved >= RouteLength[b] - 1
         THEN [currentIndex |-> RouteLength[b] - 1, direction |-> -1]
         ELSE IF moved <= 0
         THEN [currentIndex |-> 0, direction |-> 1]
         ELSE [currentIndex |-> moved, direction |-> bs[b].direction]]

InitSim ==
  /\ now = 0
  /\ activeRoute = Assignment
  /\ visits = {}
  /\ call = EmptyBag
  /\ lastOp = NoOp
  /\ routeCache = {}
  /\ queries = << >>
  /\ AuthIdle
  /\ SimIdle

\* a startBusSimulator that does not look at simulationInterval
startBusSimulatorUnguarded ==
  /\ emitted < MaxBatches
  /\ buses' = updateBusPositions(buses)
  /\ emitted' = emitted + 1
  /\ simulationInterval' = [id |-> emitted + 1]
  /\ intervals' = intervals \cup {[id |-> emitted + 1]}
  /\ lastSim' = [op |-> "start", wasRunning |-> simulationInterval # Null,
                 batches |-> 1]
  /\ UNCHANGED <<now, activeRoute, visits, call, lastOp, routeCache, queries,
                 authVars>>

\* startBusSimulator: nothing when a timer is held, otherwise one batch at
\* once and a new timer
startBusSimulator ==
  /\ IF simulationInterval # Null
     THEN /\ lastSim' = [op |-> "start", wasRunning |-> TRUE, batches |-> 0]
          /\ UNCHANGED <<simulationInterval, intervals, buses, emitted>>
     ELSE /\ emitted < MaxBatches
          /\ buses' = updateBusPositions(buses)
          /\ emitted' = emitted + 1
          /\ simulationInterval' = [id |-> emitted + 1]
          /\ intervals' = intervals \cup {[id |-> emitted + 1]}
          /\ lastSim' = [op |-> "start", wasRunning |-> FALSE, batches |-> 1]
  /\ UNCHANGED <<now, activeRoute, visits, call, lastOp, routeCache, queries,
                 authVars>>

\* stopBusSimulator: the timer that is held is cleared
stopBusSimulator ==
  /\ IF simulationInterval # Null
     THEN /\ intervals' = intervals \ {simulationInterval}
          /\ simulationInterval' = Null
     ELSE UNCHANGED <<simulationInterval, intervals>>
  /\ lastSim' = [op |-> "stop", wasRunning |-> simulationInterval # Null,
                 batches |-> 0]
  /\ UNCHANGED <<now, activeRoute, visits, call, lastOp, routeCache, queries,
                 authVars, buses, emitted>>

\* an active timer fires: updateBusPositions emits a batch
intervalFires(timer) ==
  /\ timer \in intervals
  /\ emitted < MaxBatches
  /\ buses' = updateBusPositions(buses)
  /\ emitted' = emitted + 1
  /\ lastSim' = [op |-> "interval", wasRunning |-> simulationInterval # Null,
                 batches |-> 1]
  /\ UNCHANGED <<now, activeRoute, visits, call, lastOp, routeCache, queries,
                 authVars, simulationInterval, intervals>>

NextSim ==
  \/ startBusSimulator
  \/ stopBusSimulator
  \/ \E timer \in intervals : intervalFires(timer)

SpecSim == InitSim /\ [][NextSim]_vars

(***************************************************************************)
(* C39  At most one simulation timer is active, and it is the one the      *)
(* module holds: a start while running makes no timer and emits no batch,  *)
(* after a stop no timer is active, and a batch is emitted by a timer only *)
(* while the simulator is running.                                         *)
(***************************************************************************)
C39_AtMostOneTimer ==
  /\ Cardinality(intervals) <= 1
  /\ intervals = (IF simulationInterval = Null THEN {}
                  ELSE {simulationInterval})
  /\ (lastSim.op = "start" /\ lastSim.wasRunning) => lastSim.batches = 0
  /\ lastSim.op = "stop" => intervals = {}
  /\ lastSim.op = "interval" => lastSim.wasRunning

\* a start while the simulator was running, after a stop and a restart
C39_Witness ==
  /\ lastSim.op = "start" /\ lastSim.wasRunning
  /\ simulationInterval # Null /\ simulationInterval.id > 1
  /\ emitted > 2

====
